---- MODULE Spec2Model ----
(***************************************************************************)
(* Case lifecycle and status-history subsystem of hrm-backend.             *)
(*                                                                         *)
(* The state is the three MongoDB collections CaseService works on         *)
(* (cases, archived_cases, case_status_history) plus, for every request    *)
(* worker, the position of the request it is serving and the locals of     *)
(* that request.  Every storage round trip of a service method is one      *)
(* atomic step; the local computation around a round trip belongs to the   *)
(* step.  The router (routers/cases.py) turns the outcome of the service   *)
(* call into an HTTP status.                                               *)
(***************************************************************************)
EXTENDS Integers, Sequences, FiniteSets, TLC

\* ---------------------------------------------------------------- bounds
NumProcs    == 2   \* request workers that may overlap
MaxCases    == 2   \* storage ids the driver hands out
MaxOps      == 4   \* requests started in one behaviour
MaxFailures == 1   \* storage errors raised in one behaviour
MaxSkip     == 2   \* largest skip of a list request
MaxLimit    == 2   \* largest limit of a list request

\* ------------------------------------------------------ program constants
SeqBase == 4000                              \* case_service.py:227

Procs      == 1..NumProcs
Ids        == 1..MaxCases                    \* well-formed storage ids
BadId      == 0                              \* a string that is no ObjectId
RawIds     == Ids \cup {BadId}
StatusEnum == {"new", "under_investigation", "closed"}
NoKey      == "<absent>"                     \* key missing from a payload dict
Empty      == ""                             \* key present, falsy value
User       == "u1"                           \* a well-formed actor reference
BadUser    == "admin1"                       \* an actor string that is no ObjectId
Title      == "T"
OtherTitle == "T2"
Desc       == "D"
Prio       == "high"

\* violation_types lists a payload may carry, by name, and the type names in
\* each; a type name is a sequence of characters
TypesA     == "[a]"
TypesAB    == "[a,b]"
TypeList(v) ==
    CASE v = TypesA  -> {<<"a">>}
      [] v = TypesAB -> {<<"a">>, <<"b">>}
      [] OTHER       -> {}

\* location dicts a payload may carry, by name: {} is Empty
LocRegion       == "{region: R}"
LocCountryEmpty == "{country: ''}"
LocCountry      == "{country: X}"
LocationKeys(loc) ==
    CASE loc = LocRegion       -> {"region"}
      [] loc = LocCountryEmpty -> {"country"}
      [] loc = LocCountry      -> {"country"}
      [] OTHER                 -> {}

\* victims lists an update payload may carry, by name
Victims    == "[v1]"                         \* every item a well-formed ObjectId
BadVictims == "[nobody]"                     \* an item that is no ObjectId

\* ObjectId.is_valid on the id strings and on the actor strings the model draws
ObjectIdIsValid(x) == x \in Ids
ActorIsValid(x)    == x = User

\* _process_object_id_array returns instead of raising
RefsAreValid(v)    == v = Victims

\* ------------------------------------------------------------- documents
NoDoc == [case_id |-> 0, status |-> NoKey, title |-> NoKey,
          created_by |-> NoKey, updated_by |-> NoKey,
          violation_types |-> NoKey, location |-> NoKey, victims |-> NoKey]

NoData == [status |-> NoKey, updated_by |-> NoKey, created_by |-> NoKey,
           title |-> NoKey, description |-> NoKey, violation_types |-> NoKey,
           priority |-> NoKey, location |-> NoKey, victims |-> NoKey]

\* query parameters of a list request (CaseFilters); a string parameter is a
\* sequence of characters, <<>> when it is not given
NoFilters == [violation_types |-> <<>>, status |-> Empty, skip |-> 0,
              limit |-> MaxLimit]

\* the body build_paginated_response returns; cases holds storage ids
NoPage == [cases |-> <<>>, total_count |-> 0, returned_count |-> 0,
           has_next |-> FALSE, has_prev |-> FALSE]

NoCtx == [op |-> "none", id |-> BadId, doc |-> NoDoc, data |-> NoData,
          n |-> 0, inserted |-> FALSE, compensated |-> FALSE,
          committed |-> FALSE, filters |-> NoFilters, found |-> <<>>]

NoRet == [kind |-> "none", msg |-> "", ok |-> FALSE, doc |-> NoDoc, http |-> 0,
          page |-> NoPage]

NoUndo == [stage |-> "none", id |-> BadId, act |-> <<>>, arc |-> <<>>]

VARIABLES
    cases,       \* db.cases: storage id -> document, domain = ids present
    archived,    \* db.archived_cases, same shape
    history,     \* db.case_status_history: sequence of ledger documents
    nextId,      \* next _id the driver generates on insert
    pc,          \* per worker: the storage call it is about to make
    ctx,         \* per worker: the locals of the request
    ret,         \* per worker: outcome of the finished request
    ops,         \* requests started so far
    failures,    \* storage errors raised so far
    stuck,       \* ids whose move was ended by an error in a delete step
    overlap,     \* have two requests been in progress at the same time
    createOverlap, \* observer: has a create overlapped another request
    createClash, \* observer: has it overlapped more than moves of other cases
    changes,     \* observer: per id, the statuses the stored case changed to
    undo         \* observer: the collections before the last archive

vars == <<cases, archived, history, nextId, pc, ctx, ret, ops, failures, stuck,
          overlap, createOverlap, createClash, changes, undo>>

\* --------------------------------------------------- storage primitives
Has(coll, id) == id \in DOMAIN coll

\* collection.find_one({"_id": id})
FindOne(coll, id) == IF Has(coll, id) THEN coll[id] ELSE NoDoc

\* collection.insert_one(doc) with _id = id, for an id the unique _id index
\* does not hold yet (the callers raise DuplicateKeyError otherwise)
InsertOne(coll, id, doc) == (id :> doc) @@ coll

\* collection.delete_one({"_id": id})
DeleteOne(coll, id) == [i \in (DOMAIN coll) \ {id} |-> coll[i]]

DeletedCount(coll, id) == IF Has(coll, id) THEN 1 ELSE 0

\* collection.count_documents({})
CountDocuments(coll) == Cardinality(DOMAIN coll)

\* a storage call may raise while the error budget lasts
CanFail == failures < MaxFailures

\* ----------------------------------------------------------- the router
\* routers/cases.py: the try body returns or raises; handle_not_found raises
\* HTTPException(404) inside the try body, where `except Exception` catches
\* it and re-raises it as a 500.
HandleNotFound(kind, ok) ==
    IF kind = "return" /\ ~ok THEN "HTTPException" ELSE kind

ExceptClauses(kind) ==
    CASE kind = "return"     -> 200
      [] kind = "ValueError" -> 400
      [] OTHER               -> 500

\* endpoints that call handle_not_found on the service result
RouterStatus(kind, ok) == ExceptClauses(HandleNotFound(kind, ok))

\* POST /cases/ does not call handle_not_found
RouterStatusCreate(kind) == ExceptClauses(kind)

\* the service call returned a value
Returned(p, ok, doc, http) ==
    /\ pc'  = [pc EXCEPT ![p] = "done"]
    /\ ret' = [ret EXCEPT ![p] = [kind |-> "return", msg |-> "", ok |-> ok,
                                  doc |-> doc, http |-> http,
                                  page |-> NoPage]]

\* the service call raised
Raised(p, kind, msg, http) ==
    /\ pc'  = [pc EXCEPT ![p] = "done"]
    /\ ret' = [ret EXCEPT ![p] = [kind |-> kind, msg |-> msg, ok |-> FALSE,
                                  doc |-> NoDoc, http |-> http,
                                  page |-> NoPage]]

\* a request starts
Start(p) ==
    /\ pc[p] = "idle"
    /\ ops < MaxOps
    /\ ops' = ops + 1
    /\ overlap' = (overlap \/ \E q \in Procs \ {p} : pc[q] # "idle")

\* ------------------------------------------------------------------ Init
Init ==
    /\ cases    = <<>>
    /\ archived = <<>>
    /\ history  = <<>>
    /\ nextId   = 1
    /\ pc       = [p \in Procs |-> "idle"]
    /\ ctx      = [p \in Procs |-> NoCtx]
    /\ ret      = [p \in Procs |-> NoRet]
    /\ ops      = 0
    /\ failures = 0
    /\ stuck    = {}
    /\ overlap  = FALSE
    /\ createOverlap = FALSE
    /\ createClash = FALSE
    /\ changes  = [i \in Ids |-> <<>>]
    /\ undo     = NoUndo

\* --------------------------------------------------- archive / restore
Moves == {"archive", "restore"}

Source(op) == IF op = "archive" THEN cases ELSE archived
Target(op) == IF op = "archive" THEN archived ELSE cases

SetColls(op, src, tgt) ==
    IF op = "archive" THEN cases' = src /\ archived' = tgt
                      ELSE archived' = src /\ cases' = tgt

\* _move_case_between_collections, lines 62-69: validate, find in source
MoveFind(p, op, id) ==
    /\ Start(p)
    /\ ctx' = [ctx EXCEPT ![p] = [NoCtx EXCEPT !.op = op, !.id = id,
                   !.doc = IF ObjectIdIsValid(id) THEN FindOne(Source(op), id)
                           ELSE NoDoc]]
    /\ IF ~ObjectIdIsValid(id)
       THEN Raised(p, "ValueError", "Invalid case ID format",
                   RouterStatus("ValueError", FALSE))
       ELSE IF ~Has(Source(op), id)
       THEN Returned(p, FALSE, NoDoc, RouterStatus("return", FALSE))
       ELSE pc' = [pc EXCEPT ![p] = "mv_insert"] /\ ret' = ret
    /\ UNCHANGED <<cases, archived, history, nextId, failures, stuck>>

\* mutant: the insert into the target is left out
MoveInsertSkipped(p) ==
    /\ pc[p] = "mv_insert"
    /\ pc' = [pc EXCEPT ![p] = "mv_delete"]
    /\ ctx' = [ctx EXCEPT ![p].inserted = TRUE]
    /\ UNCHANGED <<cases, archived, history, nextId, ret, ops, failures, stuck,
                   overlap>>

\* mutant: the moved copy is stamped with a status of its own
MoveInsertRestamped(p) ==
    /\ pc[p] = "mv_insert"
    /\ ~Has(Target(ctx[p].op), ctx[p].id)
    /\ SetColls(ctx[p].op, Source(ctx[p].op),
                InsertOne(Target(ctx[p].op), ctx[p].id,
                          [ctx[p].doc EXCEPT !.status = "closed"]))
    /\ ctx' = [ctx EXCEPT ![p].inserted = TRUE]
    /\ pc' = [pc EXCEPT ![p] = "mv_delete"]
    /\ UNCHANGED <<history, nextId, ret, ops, failures, stuck, overlap>>

\* line 72: target_collection.insert_one(case_to_move)
MoveInsert(p) ==
    /\ pc[p] = "mv_insert"
    /\ LET op == ctx[p].op
           id == ctx[p].id IN
       \/ /\ ~Has(Target(op), id)
          /\ SetColls(op, Source(op), InsertOne(Target(op), id, ctx[p].doc))
          /\ ctx' = [ctx EXCEPT ![p].inserted = TRUE]
          /\ pc' = [pc EXCEPT ![p] = "mv_delete"]
          /\ UNCHANGED <<ret, failures>>
       \/ /\ Has(Target(op), id)
          /\ Raised(p, "Exception", "DuplicateKeyError",
                    RouterStatus("Exception", FALSE))
          /\ UNCHANGED <<cases, archived, ctx, failures>>
       \/ /\ CanFail
          /\ failures' = failures + 1
          /\ Raised(p, "Exception", "storage error",
                    RouterStatus("Exception", FALSE))
          /\ UNCHANGED <<cases, archived, ctx>>
    /\ UNCHANGED <<history, nextId, ops, stuck, overlap>>

\* mutant: the move reports success without deleting from the source
MoveDeleteStepKept(p, op, id) ==
    /\ Returned(p, TRUE, NoDoc, RouterStatus("return", TRUE))
    /\ UNCHANGED <<cases, archived, failures, stuck>>

\* lines 75-84: delete from source; deleted_count == 0 leads to the
\* compensating delete, a raised error leaves the method at once.  A failing
\* delete either reports that it deleted nothing, the document staying where
\* it is, or raises.
MoveDeleteStep(p, op, id) ==
    \/ /\ SetColls(op, DeleteOne(Source(op), id), Target(op))
       /\ IF DeletedCount(Source(op), id) = 0
          THEN pc' = [pc EXCEPT ![p] = "mv_compensate"] /\ ret' = ret
          ELSE Returned(p, TRUE, NoDoc, RouterStatus("return", TRUE))
       /\ UNCHANGED <<failures, stuck>>
    \/ /\ CanFail
       /\ failures' = failures + 1
       /\ pc' = [pc EXCEPT ![p] = "mv_compensate"]
       /\ UNCHANGED <<cases, archived, ret, stuck>>
    \/ /\ CanFail
       /\ failures' = failures + 1
       /\ stuck' = stuck \cup {id}
       /\ Raised(p, "Exception", "storage error",
                 RouterStatus("Exception", FALSE))
       /\ UNCHANGED <<cases, archived>>

MoveDelete(p) ==
    /\ pc[p] = "mv_delete"
    /\ MoveDeleteStep(p, ctx[p].op, ctx[p].id)
    /\ UNCHANGED <<history, nextId, ctx, ops, overlap>>

\* lines 79-81: target_collection.delete_one, then return False
MoveCompensate(p) ==
    /\ pc[p] = "mv_compensate"
    /\ LET op == ctx[p].op
           id == ctx[p].id IN
       \/ /\ SetColls(op, Source(op), DeleteOne(Target(op), id))
          /\ ctx' = [ctx EXCEPT ![p].compensated = TRUE]
          /\ Returned(p, FALSE, NoDoc, RouterStatus("return", FALSE))
          /\ UNCHANGED <<failures, stuck>>
       \/ /\ CanFail
          /\ failures' = failures + 1
          /\ stuck' = stuck \cup {id}
          /\ Raised(p, "Exception", "storage error",
                    RouterStatus("Exception", FALSE))
          /\ UNCHANGED <<cases, archived, ctx>>
    /\ UNCHANGED <<history, nextId, ops, overlap>>

\* ------------------------------------------------------------ get by id
\* get_case_by_id / get_archived_case_by_id through _find_case_by_id, lines
\* 55-58: ObjectId(case_id) is built without a validity check and raises
\* bson.errors.InvalidId, which is no ValueError
GetById(p, op, id) ==
    /\ Start(p)
    /\ ctx' = [ctx EXCEPT ![p] = [NoCtx EXCEPT !.op = op, !.id = id]]
    /\ IF ~ObjectIdIsValid(id)
       THEN Raised(p, "InvalidId", "InvalidId", RouterStatus("InvalidId", FALSE))
       ELSE LET doc == FindOne(IF op = "get" THEN cases ELSE archived, id) IN
            Returned(p, doc # NoDoc, doc, RouterStatus("return", doc # NoDoc))
    /\ UNCHANGED <<cases, archived, history, nextId, failures, stuck>>

\* ------------------------------------------------------------------ list
\* str.split(','): the pieces of s between commas, from position i on, cur
\* being the piece read so far
RECURSIVE SplitComma(_, _, _)
SplitComma(s, i, cur) ==
    IF i > Len(s) THEN <<cur>>
    ELSE IF s[i] = "," THEN <<cur>> \o SplitComma(s, i + 1, <<>>)
    ELSE SplitComma(s, i + 1, Append(cur, s[i]))

\* str.strip()
RECURSIVE Strip(_)
Strip(t) ==
    IF t # <<>> /\ Head(t) = " " THEN Strip(Tail(t))
    ELSE IF t # <<>> /\ t[Len(t)] = " " THEN Strip(SubSeq(t, 1, Len(t) - 1))
    ELSE t

\* line 103: [vt.strip() for vt in violation_types.split(',') if vt.strip()]
TypesListOf(violationTypes) ==
    LET parts == SplitComma(violationTypes, 1, <<>>) IN
    SelectSeq([k \in 1..Len(parts) |-> Strip(parts[k])], LAMBDA t : t # <<>>)

Range(f) == {f[k] : k \in DOMAIN f}

\* _build_filter_query, lines 98-135, for the violation_types and status
\* parameters: all is the $all list as a set, {} when the key is not set;
\* status is Empty when the key is not set
BuildFilterQuery(violationTypes, status) ==
    [all    |-> IF violationTypes # <<>>
                THEN Range(TypesListOf(violationTypes)) ELSE {},
     status |-> status]

\* mutant: one of the listed types is enough
MatchesAny(doc, query) ==
    /\ query.all = {} \/ query.all \cap TypeList(doc.violation_types) # {}
    /\ query.status = Empty \/ doc.status = query.status

\* does a stored document satisfy the query
Matches(doc, query) ==
    /\ query.all \subseteq TypeList(doc.violation_types)
    /\ query.status = Empty \/ doc.status = query.status

Matching(coll, query) == {i \in DOMAIN coll : Matches(coll[i], query)}

\* the orders in which a cursor without a sort may deliver the documents S
Orders(S) ==
    {f \in [1..Cardinality(S) -> S] :
        \A a, b \in 1..Cardinality(S) : a # b => f[a] # f[b]}

\* cursor.skip(skip).limit(limit)
SkipLimit(order, skip, limit) ==
    SubSeq(order, skip + 1,
           IF skip + limit < Len(order) THEN skip + limit ELSE Len(order))

\* mutant: has_next also when the window ends at the last document
BuildPaginatedResponseInclusive(found, totalCount, skip, limit) ==
    [cases |-> found, total_count |-> totalCount,
     returned_count |-> Len(found),
     has_next |-> (skip + limit) <= totalCount,
     has_prev |-> skip > 0]

\* build_paginated_response, utils/case_response.py lines 8-21
BuildPaginatedResponse(found, totalCount, skip, limit) ==
    [cases |-> found, total_count |-> totalCount,
     returned_count |-> Len(found),
     has_next |-> (skip + limit) < totalCount,
     has_prev |-> skip > 0]

\* CaseFilters.validate_status, schemas/case_schema.py lines 25-30
ValidStatuses == {"open", "closed", "under_investigation"}
FiltersError(filters) ==
    IF filters.status # Empty /\ filters.status \notin ValidStatuses
    THEN "Status must be one of valid_statuses" ELSE ""

\* strings given as the violation_types parameter
VtA      == <<"a">>
VtB      == <<"b">>
VtAB     == <<"a", ",", "b">>
VtSpaced == <<" ", "b", ",", "a", ",">>
VtCommas == <<",", " ">>

\* the list requests: a violation_types filter, a status filter, or a window
\* other than the first MaxLimit documents
ListFilters ==
    {[NoFilters EXCEPT !.violation_types = v] :
        v \in {<<>>, VtA, VtB, VtAB, VtSpaced, VtCommas}}
    \cup {[NoFilters EXCEPT !.status = v] : v \in {"closed", "new"}}
    \cup {[NoFilters EXCEPT !.skip = a, !.limit = b] :
            a \in 0..MaxSkip, b \in 1..MaxLimit}

\* GET /cases/ and GET /cases/archive/: get_cases_with_filters, then
\* get_cases / get_archived_cases up to the find of
\* _query_cases_with_pagination (line 44).  The router passes status, priority
\* and search to get_archived_cases, which has no such parameters
\* (lines 394-403): the call raises TypeError.
ListFind(p, op, filters) ==
    /\ Start(p)
    /\ IF FiltersError(filters) # ""
       THEN /\ ctx' = [ctx EXCEPT ![p] = [NoCtx EXCEPT !.op = op,
                                                     !.filters = filters]]
            /\ Raised(p, "RequestValidationError", FiltersError(filters), 422)
       ELSE IF op = "list_archived"
       THEN /\ ctx' = [ctx EXCEPT ![p] = [NoCtx EXCEPT !.op = op,
                                                     !.filters = filters]]
            /\ Raised(p, "TypeError", "unexpected keyword argument 'status'",
                      ExceptClauses("TypeError"))
       ELSE /\ \E order \in Orders(Matching(cases,
                     BuildFilterQuery(filters.violation_types, filters.status))) :
                 ctx' = [ctx EXCEPT ![p] = [NoCtx EXCEPT !.op = op,
                            !.filters = filters,
                            !.found = SkipLimit(order, filters.skip, filters.limit)]]
            /\ pc' = [pc EXCEPT ![p] = "ls_count"]
            /\ ret' = ret
    /\ UNCHANGED <<cases, archived, history, nextId, failures, stuck>>

\* line 47: total_count = collection.count_documents(filter_query), then the
\* response body
ListCount(p) ==
    /\ pc[p] = "ls_count"
    /\ LET f     == ctx[p].filters
           total == Cardinality(Matching(cases,
                        BuildFilterQuery(f.violation_types, f.status))) IN
       /\ pc'  = [pc EXCEPT ![p] = "done"]
       /\ ret' = [ret EXCEPT ![p] =
                    [kind |-> "return", msg |-> "", ok |-> TRUE, doc |-> NoDoc,
                     http |-> ExceptClauses("return"),
                     page |-> BuildPaginatedResponse(ctx[p].found, total,
                                                     f.skip, f.limit)]]
    /\ UNCHANGED <<cases, archived, history, nextId, ctx, ops, failures, stuck,
                   overlap>>

\* the response has been sent; the worker is free again
Return(p) ==
    /\ pc[p] = "done"
    /\ pc'  = [pc EXCEPT ![p] = "idle"]
    /\ ctx' = [ctx EXCEPT ![p] = NoCtx]
    /\ ret' = [ret EXCEPT ![p] = NoRet]
    /\ UNCHANGED <<cases, archived, history, nextId, ops, failures, stuck, overlap>>

\* ---------------------------------------------------------------- create
\* mutant: the active cases are not counted
NewCaseIdArchivedOnly(numberOfCases, numberOfArchivedCases) ==
    SeqBase + numberOfArchivedCases + 1

\* mutant: the archived cases are not counted
NewCaseIdActiveOnly(numberOfCases, numberOfArchivedCases) ==
    SeqBase + numberOfCases + 1

\* the sequence number of the human-readable id HRM-<year>-<number>; the
\* year is the same for all cases of a behaviour and is left out
NewCaseId(numberOfCases, numberOfArchivedCases) ==
    SeqBase + numberOfCases + numberOfArchivedCases + 1

\* mutant: the status is only a default for a payload without one
CreateStatusDefault(data) == IF data.status # NoKey THEN data.status ELSE "new"

\* line 230: the status a created case is given
CreateStatus(data) == "new"

\* build_case_history_entry (the timestamp is left out)
BuildCaseHistoryEntry(status, updatedBy) ==
    [status |-> status, updated_by |-> updatedBy]

\* payloads of the overlapping requests: the required fields other than the
\* title are all given
CreatePayloads ==
    [status : {NoKey, "closed"}, updated_by : {NoKey},
     created_by : {User, BadUser, NoKey}, title : {Title, Empty, NoKey},
     description : {Desc}, violation_types : {TypesA}, priority : {Prio},
     location : {LocCountry}, victims : {NoKey}]

\* the fields of a payload that are absent or empty, location.country among
\* them
Deficient(data) ==
    {f \in {"title", "description", "violation_types", "priority"} :
        data[f] \in {NoKey, Empty}}
    \cup (IF data.location # LocCountry THEN {"location.country"} ELSE {})

\* payloads with every required field given
CompletePayloads ==
    [status : {NoKey, "closed"}, updated_by : {NoKey},
     created_by : {User, BadUser, NoKey}, title : {Title},
     description : {Desc}, violation_types : {TypesA, TypesAB},
     priority : {Prio}, location : {LocCountry}, victims : {NoKey}]

\* the complete payloads of a well-formed creator that carry no status
PlainPayloads ==
    {d \in CompletePayloads : d.created_by = User /\ d.status = NoKey}

\* payloads of the requests served one at a time: any one of the required
\* fields may be given, empty or absent
CreatePayloadsAll ==
    CompletePayloads
    \cup {[d EXCEPT ![f] = v] :
            d \in PlainPayloads,
            f \in {"title", "description", "violation_types", "priority"},
            v \in {Empty, NoKey}}
    \cup {[d EXCEPT !.location = v] :
            d \in PlainPayloads,
            v \in {LocCountryEmpty, LocRegion, Empty, NoKey}}

\* lines 193-199: the first required field that is absent or falsy, NoKey if
\* there is none
RequiredFields ==
    <<"title", "description", "violation_types", "priority", "location">>

RECURSIVE FirstMissing(_, _)
FirstMissing(data, i) ==
    IF i > Len(RequiredFields) THEN NoKey
    ELSE IF data[RequiredFields[i]] \in {NoKey, Empty} THEN RequiredFields[i]
    ELSE FirstMissing(data, i + 1)

\* lines 193-215: what create raises before its first storage call, kind
\* "go" if nothing
CreateError(data) ==
    LET f == FirstMissing(data, 1) IN
    IF f # NoKey
      THEN [kind |-> "ValueError", msg |-> "Missing required field: " \o f]
    ELSE IF "country" \notin LocationKeys(data.location)
      THEN [kind |-> "ValueError",
            msg |-> "Missing required field: location.country"]
    ELSE IF data.created_by = NoKey
      THEN [kind |-> "Exception", msg |-> "KeyError: created_by"]
    ELSE IF ~ActorIsValid(data.created_by)
      THEN [kind |-> "Exception", msg |-> "InvalidId"]
    ELSE [kind |-> "go", msg |-> ""]

CreatesInFlight ==
    Cardinality({q \in Procs : pc[q] \in {"cr_count", "cr_insert"}})

\* create_case, lines 192-224: required fields, id conversion, count the
\* active collection
CreateCount(p, data) ==
    /\ Start(p)
    /\ nextId + CreatesInFlight <= MaxCases
    /\ LET kind == CreateError(data).kind
           msg  == CreateError(data).msg IN
       IF kind = "go"
       THEN /\ ctx' = [ctx EXCEPT ![p] = [NoCtx EXCEPT !.op = "create",
                            !.data = data, !.n = CountDocuments(cases)]]
            /\ pc' = [pc EXCEPT ![p] = "cr_count"]
            /\ ret' = ret
       ELSE /\ ctx' = [ctx EXCEPT ![p] = [NoCtx EXCEPT !.op = "create"]]
            /\ Raised(p, kind, msg, RouterStatusCreate(kind))
    /\ UNCHANGED <<cases, archived, history, nextId, failures, stuck>>

\* line 225: count the archived collection
CreateCountArchived(p) ==
    /\ pc[p] = "cr_count"
    /\ ctx' = [ctx EXCEPT ![p].n = NewCaseId(ctx[p].n, CountDocuments(archived))]
    /\ pc' = [pc EXCEPT ![p] = "cr_insert"]
    /\ UNCHANGED <<cases, archived, history, nextId, ret, ops, failures, stuck, overlap>>

\* mutant: the insert is refused when a stored case carries the number
CreateInsertUnique(p) ==
    /\ pc[p] = "cr_insert"
    /\ LET doc == [case_id |-> ctx[p].n, status |-> CreateStatus(ctx[p].data),
                   title |-> ctx[p].data.title,
                   created_by |-> ctx[p].data.created_by,
                   updated_by |-> NoKey,
                   violation_types |-> ctx[p].data.violation_types,
                   location |-> ctx[p].data.location,
                   victims |-> ctx[p].data.victims]
           taken == \E i \in DOMAIN cases : cases[i].case_id = ctx[p].n IN
       \/ /\ ~taken
          /\ cases' = InsertOne(cases, nextId, doc)
          /\ nextId' = nextId + 1
          /\ ctx' = [ctx EXCEPT ![p].id = nextId, ![p].doc = doc,
                                ![p].inserted = TRUE]
          /\ pc' = [pc EXCEPT ![p] = "cr_ledger"]
          /\ UNCHANGED <<ret, failures>>
       \/ /\ taken
          /\ Raised(p, "Exception", "DuplicateKeyError",
                    RouterStatusCreate("Exception"))
          /\ UNCHANGED <<cases, nextId, ctx, failures>>
    /\ UNCHANGED <<archived, history, ops, stuck, overlap>>

\* lines 227-233: build the document and insert it
CreateInsert(p) ==
    /\ pc[p] = "cr_insert"
    /\ LET doc == [case_id |-> ctx[p].n, status |-> CreateStatus(ctx[p].data),
                   title |-> ctx[p].data.title,
                   created_by |-> ctx[p].data.created_by,
                   updated_by |-> NoKey,
                   violation_types |-> ctx[p].data.violation_types,
                   location |-> ctx[p].data.location,
                   victims |-> ctx[p].data.victims] IN
       \/ /\ cases' = InsertOne(cases, nextId, doc)
          /\ nextId' = nextId + 1
          /\ ctx' = [ctx EXCEPT ![p].id = nextId, ![p].doc = doc,
                                ![p].inserted = TRUE]
          /\ pc' = [pc EXCEPT ![p] = "cr_ledger"]
          /\ UNCHANGED <<ret, failures>>
       \/ /\ CanFail
          /\ failures' = failures + 1
          /\ Raised(p, "Exception", "storage error", RouterStatusCreate("Exception"))
          /\ UNCHANGED <<cases, nextId, ctx>>
    /\ UNCHANGED <<archived, history, ops, stuck, overlap>>

\* lines 236-243: insert the ledger document with the initial entry
CreateLedger(p) ==
    /\ pc[p] = "cr_ledger"
    /\ \/ /\ history' = Append(history,
                 [case_id |-> ctx[p].doc.case_id,
                  history |-> <<BuildCaseHistoryEntry("new", ctx[p].doc.created_by)>>])
          /\ pc' = [pc EXCEPT ![p] = "cr_read"]
          /\ UNCHANGED <<ret, failures>>
       \/ /\ CanFail
          /\ failures' = failures + 1
          /\ Raised(p, "Exception", "storage error", RouterStatusCreate("Exception"))
          /\ UNCHANGED history
    /\ UNCHANGED <<cases, archived, nextId, ctx, ops, stuck, overlap>>

\* line 246: return self.get_case_by_id(inserted_case_id)
CreateRead(p) ==
    /\ pc[p] = "cr_read"
    /\ LET doc == FindOne(cases, ctx[p].id) IN
       Returned(p, doc # NoDoc, doc, RouterStatusCreate("return"))
    /\ UNCHANGED <<cases, archived, history, nextId, ctx, ops, failures, stuck, overlap>>

\* ------------------------------------------------------ the status ledger
\* index of the first ledger document with this case_id, 0 if there is none
RECURSIVE FirstLedger(_, _, _)
FirstLedger(h, cid, i) ==
    IF i > Len(h) THEN 0
    ELSE IF h[i].case_id = cid THEN i
    ELSE FirstLedger(h, cid, i + 1)

\* get_case_status_history on the ledger collection h: find_one by
\* human-readable id, [] if absent
HistoryOf(h, cid) ==
    LET i == FirstLedger(h, cid, 1) IN
    IF i = 0 THEN <<>> ELSE h[i].history

GetCaseStatusHistory(cid) == HistoryOf(history, cid)

\* update_one({"case_id": cid}, {"$push": {"history": entry}}, upsert=True)
PushUpsert(h, cid, entry) ==
    LET i == FirstLedger(h, cid, 1) IN
    IF i = 0 THEN Append(h, [case_id |-> cid, history |-> <<entry>>])
    ELSE [h EXCEPT ![i].history = Append(@, entry)]

\* ---------------------------------------------------------------- update
UpdatePayloads ==
    [status : StatusEnum \cup {NoKey}, updated_by : {NoKey, Empty, User, BadUser},
     created_by : {NoKey}, title : {NoKey}, description : {NoKey},
     violation_types : {NoKey}, priority : {NoKey}, location : {NoKey},
     victims : {NoKey}]

\* payloads of the requests served one at a time: the status is any string
\* (CaseUpdateRequest.case_data is Dict[str, Any]), "open" standing for the
\* strings outside the enumeration, and the dict may carry any other key
UpdatePayloadsAll ==
    UpdatePayloads
    \cup {[NoData EXCEPT !.status = "open", !.updated_by = User],
          [NoData EXCEPT !.title = OtherTitle],
          [NoData EXCEPT !.victims = BadVictims],
          [NoData EXCEPT !.status = "closed", !.updated_by = User,
                         !.created_by = BadUser, !.title = OtherTitle,
                         !.description = Empty, !.violation_types = TypesAB,
                         !.priority = Empty, !.location = LocRegion,
                         !.victims = Victims]}

\* mutant: every update that carries a status appends
StatusChangedAlways(data, existing) == data.status # NoKey

\* line 358: does this update append to the ledger
StatusChanged(data, existing) ==
    data.status # NoKey /\ data.status # existing.status

\* mutant: "$set" of the whole payload
ApplySetPayload(doc, data) ==
    [doc EXCEPT !.status = IF data.status # NoKey THEN data.status ELSE @,
                !.victims = IF data.victims # NoKey THEN data.victims ELSE @,
                !.updated_by = IF data.updated_by \notin {NoKey, Empty}
                               THEN data.updated_by ELSE @,
                !.title = IF data.title # NoKey THEN data.title ELSE @]

\* "$set": fields_to_set applied to the stored document
ApplySet(doc, data) ==
    [doc EXCEPT !.status = IF data.status # NoKey THEN data.status ELSE @,
                !.victims = IF data.victims # NoKey THEN data.victims ELSE @,
                !.updated_by = IF data.updated_by \notin {NoKey, Empty}
                               THEN data.updated_by ELSE @]

\* mutant: a closed case takes no further status
UpdateErrorClosedFinal(id, data, existing) ==
    IF ~ObjectIdIsValid(id) THEN "Invalid case ID format"
    ELSE IF data = NoData
      THEN "No fields provided for update"
    ELSE IF data.status # NoKey /\ data.updated_by = NoKey
      THEN "KeyError: updated_by"
    ELSE IF data.status # NoKey /\ data.updated_by = Empty
      THEN "updated_by is required when updating status."
    ELSE IF existing = NoDoc THEN "Case not found"
    ELSE IF data.status # NoKey /\ existing.status = "closed"
      THEN "Case is closed"
    ELSE IF data.victims # NoKey /\ ~RefsAreValid(data.victims)
      THEN "Invalid ObjectId format in victims"
    ELSE IF data.updated_by \notin {NoKey, Empty} /\ ~ActorIsValid(data.updated_by)
      THEN "Invalid ObjectId format for updated_by parameter"
    ELSE ""

\* lines 282-345: what the checks before the write raise, "" if nothing
UpdateError(id, data, existing) ==
    IF ~ObjectIdIsValid(id) THEN "Invalid case ID format"
    ELSE IF data = NoData
      THEN "No fields provided for update"
    ELSE IF data.status # NoKey /\ data.updated_by = NoKey
      THEN "KeyError: updated_by"
    ELSE IF data.status # NoKey /\ data.updated_by = Empty
      THEN "updated_by is required when updating status."
    ELSE IF existing = NoDoc THEN "Case not found"
    ELSE IF data.victims # NoKey /\ ~RefsAreValid(data.victims)
      THEN "Invalid ObjectId format in victims"
    ELSE IF data.updated_by \notin {NoKey, Empty} /\ ~ActorIsValid(data.updated_by)
      THEN "Invalid ObjectId format for updated_by parameter"
    ELSE ""

ErrorKind(msg) == IF msg = "KeyError: updated_by" THEN "Exception" ELSE "ValueError"

\* mutant: the status is written as soon as the case is found
UpdateFindEager(p, id, data) ==
    /\ Start(p)
    /\ LET existing == IF ObjectIdIsValid(id) THEN FindOne(cases, id) ELSE NoDoc
           msg      == UpdateError(id, data, existing) IN
       IF msg = ""
       THEN /\ ctx' = [ctx EXCEPT ![p] = [NoCtx EXCEPT !.op = "update",
                            !.id = id, !.data = data, !.doc = existing]]
            /\ pc' = [pc EXCEPT ![p] = "up_write"]
            /\ ret' = ret
            /\ cases' = cases
       ELSE /\ ctx' = [ctx EXCEPT ![p] = [NoCtx EXCEPT !.op = "update", !.id = id]]
            /\ Raised(p, ErrorKind(msg), msg, RouterStatus(ErrorKind(msg), FALSE))
            /\ cases' = IF existing # NoDoc /\ data.status # NoKey
                        THEN [cases EXCEPT ![id].status = data.status]
                        ELSE cases
    /\ UNCHANGED <<archived, history, nextId, failures, stuck>>

\* update_case, lines 282-345: validation, find_one, field processing
UpdateFind(p, id, data) ==
    /\ Start(p)
    /\ LET existing == IF ObjectIdIsValid(id) THEN FindOne(cases, id) ELSE NoDoc
           msg      == UpdateError(id, data, existing) IN
       IF msg = ""
       THEN /\ ctx' = [ctx EXCEPT ![p] = [NoCtx EXCEPT !.op = "update",
                            !.id = id, !.data = data, !.doc = existing]]
            /\ pc' = [pc EXCEPT ![p] = "up_write"]
            /\ ret' = ret
       ELSE /\ ctx' = [ctx EXCEPT ![p] = [NoCtx EXCEPT !.op = "update", !.id = id]]
            /\ Raised(p, ErrorKind(msg), msg, RouterStatus(ErrorKind(msg), FALSE))
    /\ UNCHANGED <<cases, archived, history, nextId, failures, stuck>>

\* lines 352-355: collection.update_one({"_id": id}, {"$set": fields_to_set})
UpdateWrite(p) ==
    /\ pc[p] = "up_write"
    /\ LET id   == ctx[p].id
           data == ctx[p].data
           hit  == Has(cases, id) /\ data.status # NoKey
                     /\ cases[id].status # data.status
           next == IF StatusChanged(data, ctx[p].doc) THEN "up_push" ELSE "up_read" IN
       \/ /\ cases' = IF Has(cases, id)
                      THEN [cases EXCEPT ![id] = ApplySet(@, data)] ELSE cases
          /\ ctx' = [ctx EXCEPT ![p].committed = hit]
          /\ pc' = [pc EXCEPT ![p] = next]
          /\ UNCHANGED <<ret, failures>>
       \/ /\ CanFail
          /\ failures' = failures + 1
          /\ Raised(p, "Exception", "storage error",
                    RouterStatus("Exception", FALSE))
          /\ UNCHANGED <<cases, ctx>>
    /\ UNCHANGED <<archived, history, nextId, ops, stuck, overlap>>

\* mutant: a failed push puts the status the case had back
UpdatePushRollback(p) ==
    /\ pc[p] = "up_push"
    /\ \/ /\ history' = PushUpsert(history, ctx[p].doc.case_id,
                 BuildCaseHistoryEntry(ctx[p].data.status, ctx[p].data.updated_by))
          /\ pc' = [pc EXCEPT ![p] = "up_read"]
          /\ UNCHANGED <<cases, ret, failures>>
       \/ /\ CanFail
          /\ failures' = failures + 1
          /\ Raised(p, "Exception", "storage error",
                    RouterStatus("Exception", FALSE))
          /\ cases' = IF Has(cases, ctx[p].id)
                      THEN [cases EXCEPT ![ctx[p].id].status = ctx[p].doc.status]
                      ELSE cases
          /\ UNCHANGED history
    /\ UNCHANGED <<archived, nextId, ctx, ops, stuck, overlap>>

\* lines 358-365: push the entry to the ledger of existing_case's case_id
UpdatePush(p) ==
    /\ pc[p] = "up_push"
    /\ \/ /\ history' = PushUpsert(history, ctx[p].doc.case_id,
                 BuildCaseHistoryEntry(ctx[p].data.status, ctx[p].data.updated_by))
          /\ pc' = [pc EXCEPT ![p] = "up_read"]
          /\ UNCHANGED <<ret, failures>>
       \/ /\ CanFail
          /\ failures' = failures + 1
          /\ Raised(p, "Exception", "storage error",
                    RouterStatus("Exception", FALSE))
          /\ UNCHANGED history
    /\ UNCHANGED <<cases, archived, nextId, ctx, ops, stuck, overlap>>

\* lines 368-373: return self.get_case_by_id(case_id)
UpdateRead(p) ==
    /\ pc[p] = "up_read"
    /\ LET doc == FindOne(cases, ctx[p].id) IN
       Returned(p, doc # NoDoc, doc, RouterStatus("return", doc # NoDoc))
    /\ UNCHANGED <<cases, archived, history, nextId, ctx, ops, failures, stuck, overlap>>

\* ---------------------------------------------------------- observers
\* The observers watch a step from outside; no action reads them.

\* statuses the stored (active) document of a case changed to, in order
ObserveChanges ==
    changes' = [i \in Ids |->
        IF Has(cases, i) /\ Has(cases', i) /\ cases'[i].status # cases[i].status
        THEN Append(changes[i], cases'[i].status) ELSE changes[i]]

\* the two collections as they were when an archive started, followed through
\* that archive and a restore of the same case directly after it
ObserveUndo(p) ==
    undo' =
      IF pc[p] = "idle" /\ pc'[p] = "mv_insert" /\ ctx'[p].op = "archive"
        THEN [stage |-> "archiving", id |-> ctx'[p].id, act |-> cases,
              arc |-> archived]
      ELSE IF pc[p] = "idle" /\ pc'[p] = "mv_insert" /\ ctx'[p].op = "restore"
              /\ undo.stage = "archived" /\ undo.id = ctx'[p].id
        THEN [undo EXCEPT !.stage = "restoring"]
      ELSE IF pc[p] = "idle" THEN NoUndo
      ELSE IF pc'[p] = "done" /\ undo.stage = "archiving" /\ ret'[p].ok
        THEN [undo EXCEPT !.stage = "archived"]
      ELSE IF pc'[p] = "done" /\ undo.stage = "restoring" /\ ret'[p].ok
        THEN [undo EXCEPT !.stage = "restored"]
      ELSE IF pc'[p] = "done" /\ undo.stage \in {"archiving", "restoring"}
        THEN NoUndo
      ELSE undo

\* a create has started while another request was in progress, or another
\* request has started while a create was
ObserveSolo(p) ==
    createOverlap' =
      (\/ createOverlap
       \/ /\ pc[p] = "idle" /\ pc'[p] # "idle"
          /\ \E q \in Procs \ {p} :
                pc[q] # "idle" /\ "create" \in {ctx'[p].op, ctx[q].op})

\* a create has overlapped a request other than an archive or restore of
\* another case
ObserveClash(p) ==
    createClash' =
      (\/ createClash
       \/ /\ pc[p] = "idle" /\ pc'[p] # "idle"
          /\ \E q \in Procs \ {p} :
                /\ pc[q] # "idle"
                /\ \/ ctx'[p].op = "create" /\ ctx[q].op \notin Moves
                   \/ /\ ctx[q].op = "create"
                      /\ \/ ctx'[p].op \notin Moves
                         \/ ctx'[p].id = ctx[q].id)

Observe(p) ==
    ObserveChanges /\ ObserveUndo(p) /\ ObserveSolo(p) /\ ObserveClash(p)

Frozen == UNCHANGED <<changes, undo>>

\* --------------------------------------------------------- specifications
\* requests of several workers overlap, one storage call at a time
Next ==
    \E p \in Procs :
      \/ \E op \in {"archive", "restore"}, id \in RawIds :
             MoveFind(p, op, id) /\ Frozen /\ ObserveSolo(p) /\ ObserveClash(p)
      \/ \E op \in {"get", "get_archived"}, id \in RawIds :
             GetById(p, op, id) /\ Frozen /\ ObserveSolo(p) /\ ObserveClash(p)
      \/ MoveInsert(p) /\ Frozen /\ ObserveSolo(p) /\ ObserveClash(p)
      \/ MoveDelete(p) /\ Frozen /\ ObserveSolo(p) /\ ObserveClash(p)
      \/ MoveCompensate(p) /\ Frozen /\ ObserveSolo(p) /\ ObserveClash(p)
      \/ \E data \in CreatePayloads : CreateCount(p, data) /\ Frozen /\ ObserveSolo(p) /\ ObserveClash(p)
      \/ CreateCountArchived(p) /\ Frozen /\ ObserveSolo(p) /\ ObserveClash(p)
      \/ CreateInsert(p) /\ Frozen /\ ObserveSolo(p) /\ ObserveClash(p)
      \/ CreateLedger(p) /\ Frozen /\ ObserveSolo(p) /\ ObserveClash(p)
      \/ CreateRead(p) /\ Frozen /\ ObserveSolo(p) /\ ObserveClash(p)
      \/ \E id \in RawIds, data \in UpdatePayloads :
             UpdateFind(p, id, data) /\ Frozen /\ ObserveSolo(p) /\ ObserveClash(p)
      \/ UpdateWrite(p) /\ Frozen /\ ObserveSolo(p) /\ ObserveClash(p)
      \/ UpdatePush(p) /\ Frozen /\ ObserveSolo(p) /\ ObserveClash(p)
      \/ UpdateRead(p) /\ Frozen /\ ObserveSolo(p) /\ ObserveClash(p)
      \/ Return(p) /\ Frozen /\ ObserveSolo(p) /\ ObserveClash(p)

Spec == Init /\ [][Next]_vars

\* one request at a time: a worker steps only while all others are idle.
\* The requests are drawn from the larger payload sets, and the two listings,
\* which write nothing, are served here.
Alone(p) == \A q \in Procs \ {p} : pc[q] = "idle"

NextSeq ==
    \E p \in Procs :
      \/ \E op \in {"archive", "restore"}, id \in RawIds :
             Alone(p) /\ MoveFind(p, op, id) /\ Observe(p)
      \/ \E op \in {"get", "get_archived"}, id \in RawIds :
             Alone(p) /\ GetById(p, op, id) /\ Observe(p)
      \/ Alone(p) /\ MoveInsert(p) /\ Observe(p)
      \/ Alone(p) /\ MoveDelete(p) /\ Observe(p)
      \/ Alone(p) /\ MoveCompensate(p) /\ Observe(p)
      \/ \E data \in CreatePayloadsAll :
             Alone(p) /\ CreateCount(p, data) /\ Observe(p)
      \/ Alone(p) /\ CreateCountArchived(p) /\ Observe(p)
      \/ Alone(p) /\ CreateInsert(p) /\ Observe(p)
      \/ Alone(p) /\ CreateLedger(p) /\ Observe(p)
      \/ Alone(p) /\ CreateRead(p) /\ Observe(p)
      \/ \E id \in RawIds, data \in UpdatePayloadsAll :
             Alone(p) /\ UpdateFind(p, id, data) /\ Observe(p)
      \/ Alone(p) /\ UpdateWrite(p) /\ Observe(p)
      \/ Alone(p) /\ UpdatePush(p) /\ Observe(p)
      \/ Alone(p) /\ UpdateRead(p) /\ Observe(p)
      \/ \E op \in {"list", "list_archived"}, filters \in ListFilters :
             Alone(p) /\ ListFind(p, op, filters) /\ Observe(p)
      \/ Alone(p) /\ ListCount(p) /\ Observe(p)
      \/ Alone(p) /\ Return(p) /\ Observe(p)

SpecSeq == Init /\ [][NextSeq]_vars

\* ------------------------------------------------------------ properties
\* the storage ids of the cases created so far
Created == 1..(nextId - 1)

InBoth(i)    == Has(cases, i) /\ Has(archived, i)
InOne(i)     == Has(cases, i) # Has(archived, i)
StoredDoc(i) == IF Has(cases, i) THEN cases[i] ELSE archived[i]

\* every request has returned
Quiescent == \A p \in Procs : pc[p] \in {"idle", "done"}

\* an archive or restore of case i stands between its insert and the end
\* of its delete steps
MoveBetweenSteps(i) ==
    \E p \in Procs : pc[p] \in {"mv_delete", "mv_compensate"} /\ ctx[p].id = i

MoveInProgress(i) ==
    \E p \in Procs : ctx[p].op \in Moves /\ ctx[p].id = i /\ pc[p] # "done"

UpdateInProgress(i) ==
    \E p \in Procs : ctx[p].op = "update" /\ ctx[p].id = i /\ pc[p] # "done"

CreateInProgress(i) ==
    \E p \in Procs : ctx[p].op = "create" /\ ctx[p].id = i /\ pc[p] # "done"

Statuses(h) == [k \in 1..Len(h) |-> h[k].status]

UniqueCaseIds ==
    \A i, j \in Created :
        (i # j /\ (Has(cases, i) \/ Has(archived, i))
               /\ (Has(cases, j) \/ Has(archived, j)))
        => StoredDoc(i).case_id # StoredDoc(j).case_id

\* C1 as stated: in every reachable state every created case is in exactly
\* one of the two collections.
C1_ExactlyOne == \A i \in Created : InOne(i)

\* C1 amended: every created case is in at least one collection, and it is in
\* both only while an archive or restore of it stands between its insert and
\* the end of its delete steps, or after a storage error raised in a delete
\* step ended such a call.
C1_BothOnlyDuringMove ==
    \A i \in Created :
        \/ InOne(i)
        \/ InBoth(i) /\ (MoveBetweenSteps(i) \/ i \in stuck)

C1_WitnessBoth ==
    \E i \in Created : InBoth(i) /\ MoveBetweenSteps(i) /\ i \notin stuck

\* C2: once created, a case is in the active or in the archived collection in
\* every reachable state, whatever archive, restore and update calls overlap
\* on it; the compensating delete never removes the last copy.
C2_NeverDeleted == \A i \in Created : Has(cases, i) \/ Has(archived, i)

\* a restore that started while an archive of the same case was under way has
\* inserted its copy after that archive returned
C2_WitnessOverlap ==
    \E p, q \in Procs :
        /\ failures = 0
        /\ pc[p] = "done" /\ ctx[p].op = "archive" /\ ret[p].ok
        /\ pc[q] = "mv_delete" /\ ctx[q].op = "restore"
        /\ ctx[q].id = ctx[p].id

\* C3: an archive or restore that fails after its insert into the target
\* succeeded has deleted the target copy before it reports the failure.
C3_CompensatesBeforeFailure ==
    \A p \in Procs :
        (pc[p] = "done" /\ ctx[p].op \in Moves /\ ctx[p].inserted /\ ~ret[p].ok)
        => ctx[p].compensated

\* C4: after archive(id) returns true the case is gone from the active
\* collection and the archived collection holds the document that was active,
\* field for field; restore is the inverse, so that archive followed by
\* restore leaves both collections as they were before the archive.
C4_ArchiveRestoreInverse ==
    /\ \A p \in Procs :
         (pc[p] = "done" /\ ctx[p].op \in Moves /\ ret[p].ok)
         => /\ FindOne(Source(ctx[p].op), ctx[p].id) = NoDoc
            /\ FindOne(Target(ctx[p].op), ctx[p].id) = ctx[p].doc
    /\ undo.stage = "archived"
         => /\ FindOne(cases, undo.id) = NoDoc
            /\ FindOne(archived, undo.id) = undo.act[undo.id]
    /\ undo.stage = "restored"
         => cases = undo.act /\ archived = undo.arc

C4_WitnessRestored ==
    undo.stage = "restored" /\ undo.act[undo.id].status # "new"

\* C5: archive of a well-formed id that is not in the active collection, and
\* restore of one that is not in the archived collection, return false
\* without raising, and the response is a 404.
C5_NotFoundIs404 ==
    \A p \in Procs :
        (pc[p] = "done" /\ ctx[p].op \in Moves /\ ObjectIdIsValid(ctx[p].id)
            /\ ctx[p].doc = NoDoc)
        => (ret[p].kind = "return" /\ ~ret[p].ok /\ ret[p].http = 404)

\* C6: when updates are applied one after another, the ledger of a case holds
\* the entry of its creation followed by one entry for each update that
\* changed the stored status, in the order of the updates; an update whose
\* status equals the stored status appends nothing.
C6_LedgerCountsChanges ==
    (failures = 0 /\ Quiescent)
    => \A i \in Created :
          Statuses(GetCaseStatusHistory(StoredDoc(i).case_id))
              = <<"new">> \o changes[i]

C6_WitnessTwoChangesAndARepeat ==
    \E p \in Procs :
        /\ failures = 0
        /\ pc[p] = "done" /\ ctx[p].op = "update" /\ ret[p].kind = "return"
        /\ ctx[p].data.status = ctx[p].doc.status
        /\ Len(changes[ctx[p].id]) = 2

\* C7: whenever no update of a case is in progress (and no storage call has
\* failed), the last entry of the case's ledger carries the stored status of
\* the case.
C7_LastEntryIsStatus ==
    (failures = 0 /\ UniqueCaseIds)
    => \A i \in Created :
          (~UpdateInProgress(i) /\ ~CreateInProgress(i) /\ ~MoveInProgress(i))
          => LET h == GetCaseStatusHistory(StoredDoc(i).case_id) IN
             h # <<>> /\ h[Len(h)].status = StoredDoc(i).status

\* C8: an update appends a ledger entry only if its write changed the stored
\* status of the case to the status of the entry (shown on the behaviours
\* without storage errors).
C8_EntryOnlyForCommittedChange ==
    [][\A p \in Procs :
          (failures' = 0 /\ pc[p] = "up_push" /\ pc'[p] = "up_read")
          => ctx[p].committed]_vars

\* C9 as stated: under any interleaving, right after create returns the
\* ledger read by the new case's human-readable id has exactly one entry, of
\* status new (shown on the behaviours without storage errors).
C9_OneEntryAfterCreate ==
    [][\A p \in Procs :
          (failures' = 0 /\ pc[p] = "cr_read" /\ pc'[p] = "done")
          => LET h == HistoryOf(history', ctx[p].doc.case_id) IN
             Len(h) = 1 /\ h[1].status = "new"]_vars

\* C9 amended: in an execution in which no two calls have overlapped, right
\* after create returns the ledger read by the new case's human-readable id
\* has exactly one entry, of status new.
C9_OneEntryAfterSoloCreate ==
    [][\A p \in Procs :
          (pc[p] = "cr_read" /\ pc'[p] = "done" /\ ~overlap)
          => LET h == HistoryOf(history', ctx[p].doc.case_id) IN
             Len(h) = 1 /\ h[1].status = "new"]_vars

\* a second case has been created, alone, after the first was archived
C9_WitnessSoloCreate ==
    \E p \in Procs :
        /\ ~overlap
        /\ pc[p] = "done" /\ ctx[p].op = "create" /\ ret[p].kind = "return"
        /\ ctx[p].id = 2 /\ Has(archived, 1)

\* C10: whatever status the payload carries, the case create persists and
\* returns has status new, and so has the first entry of its ledger.
C10_CreatedIsNew ==
    \A p \in Procs :
        (pc[p] = "done" /\ ctx[p].op = "create" /\ ret[p].kind = "return")
        => /\ ret[p].doc.status = "new"
           /\ FindOne(cases, ctx[p].id).status = "new"
           /\ GetCaseStatusHistory(ret[p].doc.case_id)[1].status = "new"

C10_WitnessPayloadStatus ==
    \E p \in Procs :
        /\ pc[p] = "done" /\ ctx[p].op = "create" /\ ret[p].kind = "return"
        /\ ctx[p].data.status = "closed"

\* does the message of a validation error name the deficient field f; a
\* location that is itself absent or empty is named as "location"
Names(msg, f, data) ==
    \/ msg = "Missing required field: " \o f
    \/ /\ f = "location.country"
       /\ data.location \in {NoKey, Empty}
       /\ msg = "Missing required field: location"

\* C11: a create whose payload has any one of title, description,
\* violation_types, priority or location.country absent or empty fails with a
\* validation error (HTTP 400) that names the field, and persists neither a
\* case nor a ledger document (stated for the payloads that are well-formed
\* otherwise).
C11_MissingFieldRejected ==
    [][\A p \in Procs :
          (pc[p] = "idle" /\ ctx'[p].op = "create")
          => \A data \in CreatePayloadsAll :
               (Cardinality(Deficient(data)) = 1 /\ data.created_by = User
                   /\ CreateCount(p, data))
               => /\ pc'[p] = "done"
                  /\ ret'[p].kind = "ValueError" /\ ret'[p].http = 400
                  /\ \A f \in Deficient(data) : Names(ret'[p].msg, f, data)
                  /\ cases' = cases /\ history' = history]_vars

\* C12: an update whose payload carries a status and no actor reference
\* (updated_by absent, or present and empty) fails with a validation error
\* answered as HTTP 400, and leaves the case and its ledger unchanged.
C12_StatusNeedsActor ==
    [][\A p \in Procs :
          (pc[p] = "idle" /\ ctx'[p].op = "update")
          => \A id \in Ids, data \in UpdatePayloads :
               (data.status # NoKey /\ data.updated_by \in {NoKey, Empty}
                   /\ UpdateFind(p, id, data))
               => /\ pc'[p] = "done"
                  /\ ret'[p].kind = "ValueError" /\ ret'[p].http = 400
                  /\ cases' = cases /\ history' = history]_vars

\* C13: an update of a well-formed id that is not in the active collection
\* (unknown, or archived) fails, is answered as HTTP 404, and appends nothing
\* to any ledger (stated for payloads that pass the payload checks).
C13_UpdateNotFoundIs404 ==
    [][\A p \in Procs :
          (pc[p] = "idle" /\ ctx'[p].op = "update")
          => \A id \in Ids, data \in UpdatePayloads :
               (~Has(cases, id) /\ data.status # NoKey /\ data.updated_by = User
                   /\ UpdateFind(p, id, data))
               => /\ pc'[p] = "done"
                  /\ ret'[p].http = 404
                  /\ history' = history]_vars

\* C14: every operation that takes an identifier (get by id, get archived by
\* id, update, archive, restore, and the creator reference given to create)
\* answers a malformed identifier with HTTP 400, never with 500, and leaves
\* the stored state as it was.
C14_MalformedIdIs400 ==
    [][\A p \in Procs :
          (pc[p] = "idle" /\ pc'[p] # "idle")
          => /\ (ctx'[p].op # "create" /\ ctx'[p].id = BadId)
                => /\ pc'[p] = "done" /\ ret'[p].http = 400
                   /\ cases' = cases /\ archived' = archived
                   /\ history' = history
             /\ ctx'[p].op = "create"
                => \A data \in CreatePayloads :
                     (Deficient(data) = {} /\ data.created_by = BadUser
                         /\ CreateCount(p, data))
                     => /\ pc'[p] = "done" /\ ret'[p].http = 400
                        /\ cases' = cases /\ history' = history]_vars

\* the cases stored under storage ids i < j, created in that order
Stored(i) == Has(cases, i) \/ Has(archived, i)

\* C15: in an execution in which no create has overlapped another request,
\* each create generates the number 4000 + (active count) + (archived count)
\* + 1, and the numbers of the cases created one after another are strictly
\* increasing, hence pairwise distinct.
C15_SoloCreateNumbers ==
    ~createOverlap
    => /\ \A p \in Procs :
            pc[p] = "cr_insert"
            => ctx[p].n = 4000 + CountDocuments(cases)
                               + CountDocuments(archived) + 1
       /\ \A i, j \in Created :
            (i < j /\ Stored(i) /\ Stored(j))
            => StoredDoc(i).case_id < StoredDoc(j).case_id

\* requests other than creates have overlapped, and a second case has been
\* created after the first was archived
C15_WitnessSecondAfterArchive ==
    /\ ~createOverlap /\ overlap
    /\ Has(archived, 1) /\ Has(cases, 2)
    /\ StoredDoc(2).case_id = 4002

\* C16: two overlapping creates can read the same counts before either
\* inserts; the insert of a create persists the case under the number made
\* from the counts it read, whether or not a stored case carries that number
\* already: it is refused only by a storage error.
C16_InsertNeverRefused ==
    [][\A p \in Procs :
          (pc[p] = "cr_insert" /\ pc'[p] # "cr_insert")
          => \/ failures' = failures + 1
             \/ /\ pc'[p] = "cr_ledger"
                /\ Has(cases', nextId)
                /\ cases'[nextId].case_id = ctx[p].n]_vars

\* the only two requests so far are two creates that read the same counts;
\* both have returned their case, and the two stored cases carry the same
\* number
C16_WitnessSameNumber ==
    \E p, q \in Procs :
        /\ p # q /\ failures = 0 /\ ops = 2
        /\ pc[p] = "done" /\ ctx[p].op = "create" /\ ret[p].http = 200
        /\ pc[q] = "done" /\ ctx[q].op = "create" /\ ret[q].http = 200
        /\ ctx[p].id # ctx[q].id
        /\ cases[ctx[p].id].case_id = cases[ctx[q].id].case_id

\* the query a list request's filters stand for
QueryOf(filters) == BuildFilterQuery(filters.violation_types, filters.status)

\* C17: a listing of the archived cases whose parameters pass validation is
\* answered with HTTP 200 and a body holding archived cases that match the
\* filter, with the number of all matching archived cases as total count.
C17_ListArchivedPage ==
    \A p \in Procs :
        (pc[p] = "done" /\ ctx[p].op = "list_archived"
            /\ FiltersError(ctx[p].filters) = "")
        => /\ ret[p].http = 200
           /\ Range(ret[p].page.cases)
                 \subseteq Matching(archived, QueryOf(ctx[p].filters))
           /\ ret[p].page.total_count
                 = Cardinality(Matching(archived, QueryOf(ctx[p].filters)))

\* C18: in the body of a listing, has_next is true exactly if skip + limit <
\* total count and has_prev exactly if skip > 0, the total count being the
\* number of matching cases; for total count 0 and skip 0 both are false.
C18_PaginationFlags ==
    \A p \in Procs :
        (pc[p] = "done" /\ ctx[p].op = "list" /\ ret[p].kind = "return")
        => LET f  == ctx[p].filters
               pg == ret[p].page IN
           /\ pg.total_count = Cardinality(Matching(cases, QueryOf(f)))
           /\ pg.has_next <=> (f.skip + f.limit < pg.total_count)
           /\ pg.has_prev <=> (f.skip > 0)
           /\ (pg.total_count = 0 /\ f.skip = 0)
                => (~pg.has_next /\ ~pg.has_prev)

\* a listing has returned the first of two cases
C18_WitnessNextPage ==
    \E p \in Procs :
        /\ pc[p] = "done" /\ ctx[p].op = "list" /\ ret[p].kind = "return"
        /\ ret[p].page.total_count = 2 /\ ret[p].page.returned_count = 1
        /\ ret[p].page.has_next /\ ~ret[p].page.has_prev

\* the active cases whose violation types include both a and b
HoldingAB ==
    {i \in DOMAIN cases :
        {<<"a">>, <<"b">>} \subseteq TypeList(cases[i].violation_types)}

\* C19: a listing whose violation_types parameter lists a and b, separated by
\* commas, returns exactly the active cases that hold both types, and counts
\* them; a case holding only one of the two is not returned.
C19_AllListedTypes ==
    \A p \in Procs :
        (pc[p] = "done" /\ ctx[p].op = "list" /\ ret[p].kind = "return"
            /\ ctx[p].filters.violation_types \in {VtAB, VtSpaced})
        => /\ ret[p].page.total_count = Cardinality(HoldingAB)
           /\ Range(ret[p].page.cases) \subseteq HoldingAB
           /\ Cardinality(HoldingAB) <= ctx[p].filters.limit
                => Range(ret[p].page.cases) = HoldingAB

\* of two active cases the listing has returned the one holding both types
\* and left out the one holding a alone
C19_WitnessOneOfTwo ==
    \E p \in Procs :
        /\ pc[p] = "done" /\ ctx[p].op = "list" /\ ret[p].kind = "return"
        /\ ctx[p].filters.violation_types = VtSpaced
        /\ Cardinality(DOMAIN cases) = 2
        /\ Len(ret[p].page.cases) = 1
        /\ \E i \in DOMAIN cases : cases[i].violation_types = TypesA

\* C20: after any sequence of create and update calls the stored status of
\* every case is one of new, under_investigation, closed.
C20_StatusInEnum ==
    \A i \in Created :
        Stored(i) => StoredDoc(i).status \in {"new", "under_investigation", "closed"}

\* C21: status transitions are unguarded.  An update of an active case that
\* carries a status of the enumeration and an actor reference is accepted
\* whatever status the case has (closed included); its write stores the
\* status, and if the status differs from the one the case had, its push
\* appends an entry with the new status to the ledger of the case.
C21_TransitionsUnguarded ==
    [][\A p \in Procs :
          /\ (pc[p] = "idle" /\ ctx'[p].op = "update"
                 /\ Has(cases, ctx'[p].id))
             => \A data \in UpdatePayloads :
                  (data.status \in StatusEnum /\ data.updated_by = User
                      /\ UpdateFind(p, ctx'[p].id, data))
                  => pc'[p] = "up_write"
          /\ (pc[p] = "up_write" /\ failures' = failures
                 /\ ctx[p].data.status # NoKey /\ Has(cases, ctx[p].id))
             => /\ cases'[ctx[p].id].status = ctx[p].data.status
                /\ (ctx[p].data.status # ctx[p].doc.status)
                     => pc'[p] = "up_push"
          /\ (pc[p] = "up_push" /\ pc'[p] = "up_read")
             => LET h == HistoryOf(history', ctx[p].doc.case_id) IN
                h # <<>> /\ h[Len(h)].status = ctx[p].data.status]_vars

\* a closed case has been moved back to new, and the ledger says so
C21_WitnessReopened ==
    \E p \in Procs :
        /\ failures = 0
        /\ pc[p] = "done" /\ ctx[p].op = "update" /\ ret[p].kind = "return"
        /\ ctx[p].doc.status = "closed" /\ ctx[p].data.status = "new"
        /\ cases[ctx[p].id].status = "new"
        /\ changes[ctx[p].id] = <<"closed", "new">>
        /\ Statuses(GetCaseStatusHistory(cases[ctx[p].id].case_id))
             = <<"new", "closed", "new">>

\* an update has ended with an error after its write changed the stored
\* status, the error being the only storage error so far: its push failed
PushFailed(p) ==
    /\ pc[p] = "done" /\ ctx[p].op = "update" /\ ret[p].kind = "Exception"
    /\ ctx[p].committed /\ failures = 1

\* C22: when the write of an update has committed and the ledger append that
\* follows fails, the case keeps the new status, the ledger is left without
\* the entry, nothing is rolled back or retried, and the stored status
\* differs from the last entry of the ledger.
C22_FailedPushDiverges ==
    \A p \in Procs :
        PushFailed(p)
        => LET h == GetCaseStatusHistory(ctx[p].doc.case_id) IN
           /\ cases[ctx[p].id].status = ctx[p].data.status
           /\ Statuses(h) = <<"new">> \o SubSeq(changes[ctx[p].id], 1,
                                              Len(changes[ctx[p].id]) - 1)
           /\ h[Len(h)].status # cases[ctx[p].id].status

\* the push of the second status change of a case has failed
C22_WitnessSecondPushFailed ==
    \E p \in Procs : PushFailed(p) /\ Len(changes[ctx[p].id]) = 2

IsPrefix(a, b) == Len(a) <= Len(b) /\ SubSeq(b, 1, Len(a)) = a

\* the human-readable numbers that have a ledger document in h
Ledgered(h) == {h[k].case_id : k \in 1..Len(h)}

\* no step removes, reorders or rewrites an entry: the ledger read under a
\* number before the step is a prefix of the one read after it
LedgerGrows ==
    \A cid \in Ledgered(history) :
        IsPrefix(HistoryOf(history, cid), HistoryOf(history', cid))

\* C23: the ledger of a case is append-only, whatever operation runs, and
\* its first entry always carries the status the case had at creation, new.
C23_AppendOnlyFromNew ==
    [][/\ LedgerGrows
       /\ \A cid \in Ledgered(history') :
             HistoryOf(history', cid)[1].status = "new"]_vars

\* every archive and restore that was started has returned
MovesReturned == \A p \in Procs : ctx[p].op \in Moves => pc[p] = "done"

\* C24: a case is in both collections only while an archive or restore of it
\* is between its insert into the target and the end of its delete steps;
\* and when every started archive and restore has returned and no storage
\* call has failed, each case is in exactly one collection.
C24_BothOnlyBetweenSteps ==
    /\ \A i \in Created : InBoth(i) => MoveBetweenSteps(i)
    /\ (MovesReturned /\ failures = 0) => \A i \in Created : InOne(i)

\* C25: a status-changing update that returns successfully is not lost to
\* an archive that overlaps it: when both have returned, the case document
\* that is left carries the status the update wrote (stated for an execution
\* of a create, one update and one archive, so that no later update exists).
C25_UpdateSurvivesArchive ==
    \A p, q \in Procs :
        (/\ p # q /\ failures = 0 /\ ops = 3
         /\ pc[p] = "done" /\ ctx[p].op = "update" /\ ret[p].http = 200
         /\ StatusChanged(ctx[p].data, ctx[p].doc)
         /\ pc[q] = "done" /\ ctx[q].op = "archive" /\ ret[q].ok
         /\ ctx[q].id = ctx[p].id)
        => StoredDoc(ctx[p].id).status = ctx[p].data.status

\* C26: when no create has overlapped anything but archive and restore
\* calls on other cases (and no storage call has failed), the stored cases
\* carry pairwise distinct human-readable numbers.
C26_DistinctDespiteMoves ==
    (~createClash /\ failures = 0) => UniqueCaseIds

\* C27: an update that fails at a check made before its write (malformed
\* id, empty payload, status without actor, case not active, malformed victim
\* reference, malformed updated_by) leaves the two case collections and the
\* ledgers exactly as they were.
C27_FailedUpdateWritesNothing ==
    [][\A p \in Procs :
          (/\ pc[p] = "idle" /\ pc'[p] = "done"
           /\ ctx'[p].op = "update" /\ ~ret'[p].ok)
          => UNCHANGED <<cases, archived, history>>]_vars

\* an update of an active case that carries a new status has been refused
\* for its malformed updated_by
C27_WitnessRefusedLate ==
    \E p \in Procs :
        /\ pc[p] = "done" /\ ctx[p].op = "update" /\ ret[p].http = 400
        /\ ret[p].msg = "Invalid ObjectId format for updated_by parameter"
        /\ Has(cases, ctx[p].id)

\* the fields of a case document no update writes
Kept(doc) ==
    [f \in {"case_id", "title", "created_by", "violation_types", "location"}
        |-> doc[f]]

\* C28: the steps of an update leave the archived collection and every other
\* active case as they were, add and remove no case, and leave the case id,
\* title, creator, violation types and location of the updated case as they
\* were, whatever the payload carries.
C28_UpdateWritesOnlyItsFields ==
    [][\A p \in Procs :
          (pc[p] \in {"up_write", "up_push", "up_read"} /\ pc'[p] # pc[p])
          => /\ archived' = archived
             /\ DOMAIN cases' = DOMAIN cases
             /\ \A i \in DOMAIN cases :
                   /\ Kept(cases'[i]) = Kept(cases[i])
                   /\ i # ctx[p].id => cases'[i] = cases[i]]_vars

\* an update whose payload carries another title, creator, types and location
\* has returned 200 and the stored case has the title it was created with
C28_WitnessForeignKeysIgnored ==
    \E p \in Procs :
        /\ pc[p] = "done" /\ ctx[p].op = "update" /\ ret[p].http = 200
        /\ ctx[p].data.title = OtherTitle /\ ctx[p].data.status = "closed"
        /\ Has(cases, ctx[p].id)
        /\ cases[ctx[p].id].title = Title
        /\ cases[ctx[p].id].status = "closed"
        /\ cases[ctx[p].id].victims = Victims

\* the active cases whose stored status is s
WithStatus(s) == {i \in DOMAIN cases : cases[i].status = s}

\* C29: a listing filtered on a status that an active case holds (new,
\* under_investigation or closed) is answered 200 and counts exactly the
\* active cases with that status, so it returns at least one case.
C29_StoredStatusListable ==
    \A p \in Procs :
        (/\ pc[p] = "done" /\ ctx[p].op = "list"
         /\ ctx[p].filters.status \in StatusEnum
         /\ WithStatus(ctx[p].filters.status) # {})
        => /\ ret[p].http = 200
           /\ ret[p].page.total_count
                = Cardinality(WithStatus(ctx[p].filters.status))
           /\ Len(ret[p].page.cases) >= 1

\* C30: no step of an archive or restore changes the ledgers, and while a
\* case is in the archived collection only, no step of an update changes its
\* stored status or the entries of its ledger (no storage call failing).
C30_ArchivedLedgerFrozen ==
    [][\A p \in Procs :
          /\ (ctx[p].op \in Moves /\ pc[p] \notin {"idle", "done"}
                  /\ pc'[p] # pc[p])
             => history' = history
          /\ \A i \in DOMAIN archived :
                (/\ failures = 0 /\ ~Has(cases, i)
                 /\ pc[p] \in {"up_write", "up_push", "up_read"}
                 /\ pc'[p] # pc[p])
                => /\ Has(archived', i)
                   /\ archived'[i].status = archived[i].status
                   /\ HistoryOf(history', archived[i].case_id)
                        = HistoryOf(history, archived[i].case_id)]_vars

====
